---- MODULE Spec2Model ----
(***************************************************************************)
(* The encrypted credential vault of the dashboard: the crypto helpers     *)
(* (utils/secureVault: encryptData, decryptData) and the React provider    *)
(* that owns the session (state/VaultContext: VaultProvider).              *)
(*                                                                         *)
(* A nullable JavaScript value is Null or Some(v).  An async callback is   *)
(* two steps: the call (its code up to the first await that waits for the  *)
(* platform's crypto) and the resumption after the awaited promise has     *)
(* resolved; between the two the callback is an entry of `pending`.        *)
(* Callbacks are taken from the latest render, so a call reads the current *)
(* values of encrypted, tokens and password.                               *)
(*                                                                         *)
(* Spec is the provider used the way the panels use it, every async call   *)
(* awaited before the next call is made, in a runtime that offers          *)
(* localStorage and Web Crypto and over an item only the provider writes.  *)
(* SpecOverlap lets the calls overlap, up to MaxInFlight of them.  SpecEnv *)
(* is Spec in any runtime (localStorage or Web Crypto missing, setItem     *)
(* failing) and over any item found in localStorage.  SpecCrypto is        *)
(* utils/secureVault called directly, without the provider.                *)
(***************************************************************************)
EXTENDS Integers, Sequences, FiniteSets, TLC

\* ------------------------------------------------------------------------
\* Bounds and input domains
\* ------------------------------------------------------------------------

\* How many async callbacks may be in flight at once.
MaxInFlight == 2

\* How many times encryptData may be called in one run.
MaxEncrypt == 3

ServiceIds == {"todoist", "webex"}

TokenStrings == {"tok-A", "tok-B"}

\* Password strings handed to the provider; "" is a string like any other.
Passwords == {"", "pw-1", "pw-2"}

\* The passwords and initial token maps handed to the provider when its calls
\* overlap.
OverlapPasswords == {"pw-1", "pw-2"}

OverlapInitialTokens == {[k \in {} |-> ""], [k \in {"todoist"} |-> "tok-B"]}

\* ------------------------------------------------------------------------
\* JavaScript values
\* ------------------------------------------------------------------------

Null == <<>>

Some(v) == <<v>>

Val(o) == o[1]

\* obj[name] for an object that may lack the member: undefined if it does.
Undefined == [undefined |-> TRUE]

Member(obj, name) == IF name \in DOMAIN obj THEN obj[name] ELSE Undefined

\* !x for a nullable string: null and "" are both falsy.
FalsyString(o) == o = Null \/ Val(o) = ""

\* type VaultTokens = Record<string, string>
VaultTokens == UNION {[D -> TokenStrings] : D \in SUBSET ServiceIds}

EmptyTokens == [k \in {} |-> ""]

\* { ...current, [serviceId]: token }
SpreadWith(current, serviceId, token) ==
  [k \in DOMAIN current \cup {serviceId} |->
     IF k = serviceId THEN token ELSE current[k]]

\* const { [serviceId]: _removed, ...rest } = current
RestWithout(current, serviceId) ==
  [k \in DOMAIN current \ {serviceId} |-> current[k]]

\* ------------------------------------------------------------------------
\* State
\* ------------------------------------------------------------------------

VARIABLES
  platform,   \* what the runtime offers, fixed for a run: [localStorage,
              \* crypto: whether they exist; setItemThrows: whether setItem fails]
  storage,    \* window.localStorage's item 'dashboard.vault': Null or Some(text)
  encrypted,  \* useState<EncryptedPayload | null>
  tokens,     \* useState<VaultTokens | null>
  password,   \* useState<string | null>
  pending,    \* the async callbacks awaiting the crypto layer, in call order
  rng,        \* how many times encryptData has been called
  ret,        \* how the latest call to return, resolve or reject ended
  held        \* what a direct caller of utils/secureVault got from encryptData,
              \* call by call: [pwd, data, payload]; the provider keeps no such list

vars == <<platform, storage, encrypted, tokens, password, pending, rng, ret, held>>

\* ------------------------------------------------------------------------
\* utils/secureVault
\* ------------------------------------------------------------------------

\* getSubtleCrypto and getRandomBytes throw unless window.crypto offers
\* subtle and getRandomValues.
cryptoAvailable == platform.crypto

SaltLength == 16

IvLength == 12

\* The order in which JSON.stringify writes the members of a token map.
MemberOrder == <<"todoist", "webex">>

\* JSON.stringify(data) for a token map: the text, as the list of the
\* members it writes.
JSONstringify(data) ==
  LET F[i \in 0..Len(MemberOrder)] ==
        IF i = 0 THEN <<>>
        ELSE IF MemberOrder[i] \in DOMAIN data
             THEN Append(F[i - 1], <<MemberOrder[i], data[MemberOrder[i]]>>)
             ELSE F[i - 1]
  IN  [json |-> F[Len(MemberOrder)]]

\* JSON.parse(text) for the text of a token map.
JSONparse(text) ==
  LET json == text.json
  IN  [k \in {json[i][1] : i \in DOMAIN json} |->
         json[CHOOSE i \in DOMAIN json : json[i][1] = k][2]]

\* JSON.parse throws on text that is not JSON.
IsJSON(text) == DOMAIN text = {"json"}

\* The n-th draw of window.crypto.getRandomValues, of the given length.
getRandomBytes(length, n) == [len |-> length, n |-> n]

bufferToBase64(buffer) == [b64 |-> buffer]

\* window.atob throws on text that is not base64.
IsBase64(text) == DOMAIN text = {"b64"}

base64ToBuffer(base64) == base64.b64

\* PBKDF2 over (password, salt): the key is a function of exactly these two.
deriveKey(pwd, salt) == [password |-> pwd, salt |-> salt]

\* AES-GCM: the sealed text opens only under the same key and iv.
subtleEncrypt(iv, key, plaintext) == [key |-> key, iv |-> iv, plaintext |-> plaintext]

subtleDecryptOk(iv, key, ciphertext) ==
  /\ DOMAIN ciphertext = {"key", "iv", "plaintext"}
  /\ ciphertext.key = key
  /\ ciphertext.iv = iv

\* payload.version === 1
IsVersion1(payload) == "version" \in DOMAIN payload /\ payload.version = 1

\* As encryptData, but the returned object carries the iv as its salt and the
\* salt as its iv.
encryptDataSwappingSaltAndIv(pwd, data, n) ==
  LET salt == getRandomBytes(SaltLength, 2 * n)
      iv == getRandomBytes(IvLength, 2 * n + 1)
      key == deriveKey(pwd, salt)
      plaintext == JSONstringify(data)
      ciphertext == subtleEncrypt(iv, key, plaintext)
  IN  [version |-> 1,
       salt |-> bufferToBase64(iv),
       iv |-> bufferToBase64(salt),
       ciphertext |-> bufferToBase64(ciphertext)]

\* As encryptData, but the salt is drawn once and used for every call.
encryptDataWithOneSalt(pwd, data, n) ==
  LET salt == getRandomBytes(SaltLength, 0)
      iv == getRandomBytes(IvLength, 2 * n + 1)
      key == deriveKey(pwd, salt)
      plaintext == JSONstringify(data)
      ciphertext == subtleEncrypt(iv, key, plaintext)
  IN  [version |-> 1,
       salt |-> bufferToBase64(salt),
       iv |-> bufferToBase64(iv),
       ciphertext |-> bufferToBase64(ciphertext)]

\* As encryptData, but the encoded text is returned as the ciphertext
\* without subtle.encrypt.
encryptDataWithoutEncrypting(pwd, data, n) ==
  LET salt == getRandomBytes(SaltLength, 2 * n)
      iv == getRandomBytes(IvLength, 2 * n + 1)
      plaintext == JSONstringify(data)
  IN  [version |-> 1,
       salt |-> bufferToBase64(salt),
       iv |-> bufferToBase64(iv),
       ciphertext |-> bufferToBase64(plaintext)]

\* encryptData(password, data), n being the number of earlier calls: the
\* salt and the iv are the next two draws of the random source.
encryptData(pwd, data, n) ==
  LET salt == getRandomBytes(SaltLength, 2 * n)
      iv == getRandomBytes(IvLength, 2 * n + 1)
      key == deriveKey(pwd, salt)
      plaintext == JSONstringify(data)
      ciphertext == subtleEncrypt(iv, key, plaintext)
  IN  [version |-> 1,
       salt |-> bufferToBase64(salt),
       iv |-> bufferToBase64(iv),
       ciphertext |-> bufferToBase64(ciphertext)]

\* As decryptData, but the version is checked after salt and iv have been
\* decoded and the key derived.
decryptDataCheckingVersionLate(pwd, payload) ==
  IF ~(IsBase64(Member(payload, "salt")) /\ IsBase64(Member(payload, "iv")))
  THEN [error |-> "InvalidCharacterError", value |-> Null]
  ELSE IF ~cryptoAvailable
  THEN [error |-> "Web Crypto API is not available", value |-> Null]
  ELSE IF ~IsVersion1(payload)
  THEN [error |-> "Unsupported vault version", value |-> Null]
  ELSE LET salt == base64ToBuffer(payload.salt)
           iv == base64ToBuffer(payload.iv)
           key == deriveKey(pwd, salt)
       IN  IF /\ IsBase64(Member(payload, "ciphertext"))
              /\ subtleDecryptOk(iv, key, base64ToBuffer(payload.ciphertext))
              /\ IsJSON(base64ToBuffer(payload.ciphertext).plaintext)
           THEN [error |-> "",
                 value |-> Some(JSONparse(base64ToBuffer(payload.ciphertext).plaintext))]
           ELSE [error |-> "Invalid password or corrupted data", value |-> Null]

\* decryptData(password, payload): [error |-> "" and the value, or the
\* message of the Error thrown].
decryptData(pwd, payload) ==
  IF ~IsVersion1(payload)
  THEN [error |-> "Unsupported vault version", value |-> Null]
  ELSE IF ~(IsBase64(Member(payload, "salt")) /\ IsBase64(Member(payload, "iv")))
  THEN [error |-> "InvalidCharacterError", value |-> Null]
  ELSE IF ~cryptoAvailable
  THEN [error |-> "Web Crypto API is not available", value |-> Null]
  ELSE LET salt == base64ToBuffer(payload.salt)
           iv == base64ToBuffer(payload.iv)
           key == deriveKey(pwd, salt)
       IN  IF /\ IsBase64(Member(payload, "ciphertext"))
              /\ subtleDecryptOk(iv, key, base64ToBuffer(payload.ciphertext))
              /\ IsJSON(base64ToBuffer(payload.ciphertext).plaintext)
           THEN [error |-> "",
                 value |-> Some(JSONparse(base64ToBuffer(payload.ciphertext).plaintext))]
           ELSE [error |-> "Invalid password or corrupted data", value |-> Null]

\* ------------------------------------------------------------------------
\* state/VaultContext: VaultProvider
\* ------------------------------------------------------------------------

\* The text of an item of localStorage: <<"json", value>> is the JSON text
\* of value, <<"text", [chars |-> c]>> is the text c, which is not JSON.
\* JSON.stringify(payload) as stored:
StoredText(payload) == <<"json", payload>>

\* A parsed JSON value that is a primitive (null, a number, a string) is
\* [primitive |-> its text]; every other record is an object.
IsObject(parsed) == "primitive" \notin DOMAIN parsed

\* function loadStoredVault(): EncryptedPayload | null
loadStoredVault ==
  IF ~platform.localStorage THEN Null
  ELSE IF storage = Null THEN Null
  ELSE LET raw == Val(storage)
       IN  IF raw = <<"text", [chars |-> ""]>> THEN Null
           ELSE IF raw[1] # "json" THEN Null
           ELSE IF ~IsObject(raw[2]) \/ ~IsVersion1(raw[2]) THEN Null
           ELSE Some(raw[2])

hasVault == encrypted # Null

isUnlocked == tokens # Null

Result(op, arg, out, value) == [op |-> op, arg |-> arg, out |-> out, value |-> value]

Call(op, arg, pwd, toks, payload) ==
  [op |-> op, arg |-> arg, pwd |-> pwd, toks |-> toks, payload |-> payload]

RemoveAt(s, i) == [j \in 1..(Len(s) - 1) |-> IF j < i THEN s[j] ELSE s[j + 1]]

CanCall == Len(pending) < MaxInFlight

CanEncrypt == CanCall /\ rng < MaxEncrypt

\* window.localStorage.setItem throws, as it does when the quota is exceeded.
persistEncryptedThrows == platform.localStorage /\ platform.setItemThrows

\* persistEncrypted(payload) when setItem does not throw: the new values of
\* storage and encrypted.
persistEncrypted(payload) ==
  IF ~platform.localStorage
  THEN UNCHANGED <<storage, encrypted>>
  ELSE /\ storage' = Some(StoredText(payload))
       /\ encrypted' = Some(payload)

\* initializeVault(pwd, initialTokens), up to `await encryptData(...)`.
initializeVault(pwd, initialTokens) ==
  /\ CanEncrypt
  /\ IF ~cryptoAvailable
     THEN /\ ret' = Result("initializeVault", "", "Crypto.getRandomValues is not available", Null)
          /\ UNCHANGED <<pending, rng>>
     ELSE /\ pending' = Append(pending,
               Call("initializeVault", "", pwd, Some(initialTokens),
                    encryptData(pwd, initialTokens, rng)))
          /\ rng' = rng + 1
          /\ UNCHANGED ret
  /\ UNCHANGED <<platform, held, storage, encrypted, tokens, password>>

\* As initializeVaultResume, but the new tokens are merged into those held.
initializeVaultResumeMerging(i) ==
  /\ i \in DOMAIN pending
  /\ pending[i].op = "initializeVault"
  /\ IF persistEncryptedThrows
     THEN /\ ret' = Result("initializeVault", "", "QuotaExceededError", Null)
          /\ UNCHANGED <<storage, encrypted, tokens, password>>
     ELSE /\ persistEncrypted(pending[i].payload)
          /\ tokens' = IF tokens = Null THEN pending[i].toks
                       ELSE Some([k \in DOMAIN Val(tokens) \cup DOMAIN Val(pending[i].toks) |->
                                    IF k \in DOMAIN Val(pending[i].toks)
                                    THEN Val(pending[i].toks)[k] ELSE Val(tokens)[k]])
          /\ password' = Some(pending[i].pwd)
          /\ ret' = Result("initializeVault", "", "ok", Null)
  /\ pending' = RemoveAt(pending, i)
  /\ UNCHANGED <<platform, held, rng>>

\* initializeVault after the await: persist, setTokens, setPassword.
initializeVaultResume(i) ==
  /\ i \in DOMAIN pending
  /\ pending[i].op = "initializeVault"
  /\ IF persistEncryptedThrows
     THEN /\ ret' = Result("initializeVault", "", "QuotaExceededError", Null)
          /\ UNCHANGED <<storage, encrypted, tokens, password>>
     ELSE /\ persistEncrypted(pending[i].payload)
          /\ tokens' = pending[i].toks
          /\ password' = Some(pending[i].pwd)
          /\ ret' = Result("initializeVault", "", "ok", Null)
  /\ pending' = RemoveAt(pending, i)
  /\ UNCHANGED <<platform, held, rng>>

\* As setMasterPassword, but always starting from the empty map.
setMasterPasswordFromEmpty(pwd) ==
  /\ CanEncrypt
  /\ pending' = Append(pending,
        Call("setMasterPassword", "", pwd, Some(EmptyTokens),
             encryptData(pwd, EmptyTokens, rng)))
  /\ rng' = rng + 1
  /\ UNCHANGED <<platform, held, storage, encrypted, tokens, password, ret>>

\* setMasterPassword(pwd), up to `await encryptData(...)`.
setMasterPassword(pwd) ==
  /\ CanEncrypt
  /\ LET initialTokens == IF tokens = Null THEN EmptyTokens ELSE Val(tokens)
     IN  IF ~cryptoAvailable
         THEN /\ ret' = Result("setMasterPassword", "", "Crypto.getRandomValues is not available", Null)
              /\ UNCHANGED <<pending, rng>>
         ELSE /\ pending' = Append(pending,
                   Call("setMasterPassword", "", pwd, Some(initialTokens),
                        encryptData(pwd, initialTokens, rng)))
              /\ rng' = rng + 1
              /\ UNCHANGED ret
  /\ UNCHANGED <<platform, held, storage, encrypted, tokens, password>>

\* setMasterPassword after the await: persist, setTokens, setPassword.
setMasterPasswordResume(i) ==
  /\ i \in DOMAIN pending
  /\ pending[i].op = "setMasterPassword"
  /\ IF persistEncryptedThrows
     THEN /\ ret' = Result("setMasterPassword", "", "QuotaExceededError", Null)
          /\ UNCHANGED <<storage, encrypted, tokens, password>>
     ELSE /\ persistEncrypted(pending[i].payload)
          /\ tokens' = pending[i].toks
          /\ password' = Some(pending[i].pwd)
          /\ ret' = Result("setMasterPassword", "", "ok", Null)
  /\ pending' = RemoveAt(pending, i)
  /\ UNCHANGED <<platform, held, rng>>

\* What decryptData throws before its first await, "" if nothing: the
\* version check, atob on salt and iv, getSubtleCrypto inside deriveKey.
decryptDataThrowsAtOnce(payload) ==
  IF ~IsVersion1(payload) THEN "Unsupported vault version"
  ELSE IF ~(IsBase64(Member(payload, "salt")) /\ IsBase64(Member(payload, "iv")))
  THEN "InvalidCharacterError"
  ELSE IF ~cryptoAvailable THEN "Web Crypto API is not available"
  ELSE ""

\* unlock(pwd), up to the await inside decryptData; everything thrown is
\* caught and becomes false.
unlock(pwd) ==
  /\ CanCall
  /\ IF encrypted = Null
     THEN /\ ret' = Result("unlock", "", "false", Null)
          /\ UNCHANGED pending
     ELSE IF decryptDataThrowsAtOnce(Val(encrypted)) # ""
     THEN /\ ret' = Result("unlock", "", "false", Null)
          /\ UNCHANGED pending
     ELSE /\ pending' = Append(pending, Call("unlock", "", pwd, Null, Val(encrypted)))
          /\ UNCHANGED ret
  /\ UNCHANGED <<platform, held, storage, encrypted, tokens, password, rng>>

\* As unlockResume, but setPassword(pwd) is left out.
unlockResumeWithoutPassword(i) ==
  /\ i \in DOMAIN pending
  /\ pending[i].op = "unlock"
  /\ LET decrypted == decryptData(pending[i].pwd, pending[i].payload)
     IN  IF decrypted.error = ""
         THEN /\ tokens' = decrypted.value
              /\ ret' = Result("unlock", "", "true", Null)
         ELSE /\ ret' = Result("unlock", "", "false", Null)
              /\ UNCHANGED tokens
  /\ pending' = RemoveAt(pending, i)
  /\ UNCHANGED <<platform, held, storage, encrypted, password, rng>>

\* As unlockResume, but without the try/catch around decryptData.
unlockResumeUncaught(i) ==
  /\ i \in DOMAIN pending
  /\ pending[i].op = "unlock"
  /\ LET decrypted == decryptData(pending[i].pwd, pending[i].payload)
     IN  IF decrypted.error = ""
         THEN /\ tokens' = decrypted.value
              /\ password' = Some(pending[i].pwd)
              /\ ret' = Result("unlock", "", "true", Null)
         ELSE /\ ret' = Result("unlock", "", decrypted.error, Null)
              /\ UNCHANGED <<tokens, password>>
  /\ pending' = RemoveAt(pending, i)
  /\ UNCHANGED <<platform, held, storage, encrypted, rng>>

\* unlock after the await: setTokens and setPassword, or the catch.
unlockResume(i) ==
  /\ i \in DOMAIN pending
  /\ pending[i].op = "unlock"
  /\ LET decrypted == decryptData(pending[i].pwd, pending[i].payload)
     IN  IF decrypted.error = ""
         THEN /\ tokens' = decrypted.value
              /\ password' = Some(pending[i].pwd)
              /\ ret' = Result("unlock", "", "true", Null)
         ELSE /\ ret' = Result("unlock", "", "false", Null)
              /\ UNCHANGED <<tokens, password>>
  /\ pending' = RemoveAt(pending, i)
  /\ UNCHANGED <<platform, held, storage, encrypted, rng>>

\* As lock, but setPassword(null) is left out.
lockKeepingPassword ==
  /\ tokens' = Null
  /\ ret' = Result("lock", "", "ok", Null)
  /\ UNCHANGED <<platform, held, storage, encrypted, password, pending, rng>>

lock ==
  /\ tokens' = Null
  /\ password' = Null
  /\ ret' = Result("lock", "", "ok", Null)
  /\ UNCHANGED <<platform, held, storage, encrypted, pending, rng>>

\* As clearVault, but setPassword(null) is left out.
clearVaultKeepingPassword ==
  /\ storage' = IF platform.localStorage THEN Null ELSE storage
  /\ encrypted' = Null
  /\ tokens' = Null
  /\ ret' = Result("clearVault", "", "ok", Null)
  /\ UNCHANGED <<platform, held, password, pending, rng>>

\* As clearVault, but localStorage.removeItem is left out.
clearVaultKeepingItem ==
  /\ encrypted' = Null
  /\ tokens' = Null
  /\ password' = Null
  /\ ret' = Result("clearVault", "", "ok", Null)
  /\ UNCHANGED <<platform, held, storage, pending, rng>>

clearVault ==
  /\ storage' = IF platform.localStorage THEN Null ELSE storage
  /\ encrypted' = Null
  /\ tokens' = Null
  /\ password' = Null
  /\ ret' = Result("clearVault", "", "ok", Null)
  /\ UNCHANGED <<platform, held, pending, rng>>

\* The value getToken(serviceId) returns: tokens[serviceId] ?? null.
getTokenValue(serviceId) ==
  IF tokens = Null THEN Null
  ELSE IF serviceId \in DOMAIN Val(tokens) THEN Some(Val(tokens)[serviceId])
  ELSE Null

\* As getToken, but without `if (!tokens) return null`: reading a member of
\* null throws.
getTokenUnguarded(serviceId) ==
  /\ ret' = IF tokens = Null
            THEN Result("getToken", serviceId, "TypeError", Null)
            ELSE Result("getToken", serviceId, "ok", getTokenValue(serviceId))
  /\ UNCHANGED <<platform, held, storage, encrypted, tokens, password, pending, rng>>

getToken(serviceId) ==
  /\ ret' = Result("getToken", serviceId, "ok", getTokenValue(serviceId))
  /\ UNCHANGED <<platform, held, storage, encrypted, tokens, password, pending, rng>>

\* setServiceToken once past the lock check: setTokens(next), then
\* encryptData(password, next) up to its await.
setServiceTokenAccepted(serviceId, token) ==
  /\ CanEncrypt
  /\ LET current == IF tokens = Null THEN EmptyTokens ELSE Val(tokens)
         next == SpreadWith(current, serviceId, token)
     IN  /\ tokens' = Some(next)
         /\ IF ~cryptoAvailable
            THEN /\ ret' = Result("setServiceToken", serviceId, "Crypto.getRandomValues is not available", Null)
                 /\ UNCHANGED <<pending, rng>>
            ELSE /\ pending' = Append(pending,
                      Call("setServiceToken", serviceId, Val(password), Some(next),
                           encryptData(Val(password), next, rng)))
                 /\ rng' = rng + 1
                 /\ UNCHANGED ret
  /\ UNCHANGED <<platform, held, storage, encrypted, password>>

\* As setServiceToken, but setTokens(next) comes before the lock check.
setServiceTokenCheckingLate(serviceId, token) ==
  IF FalsyString(password)
  THEN /\ tokens' = Some(SpreadWith(IF tokens = Null THEN EmptyTokens ELSE Val(tokens),
                                    serviceId, token))
       /\ ret' = Result("setServiceToken", serviceId, "Vault is locked", Null)
       /\ UNCHANGED <<platform, held, storage, encrypted, password, pending, rng>>
  ELSE setServiceTokenAccepted(serviceId, token)

\* setServiceToken(serviceId, token), up to `await encryptData(...)`.
setServiceToken(serviceId, token) ==
  IF FalsyString(password)
  THEN /\ ret' = Result("setServiceToken", serviceId, "Vault is locked", Null)
       /\ UNCHANGED <<platform, held, storage, encrypted, tokens, password, pending, rng>>
  ELSE setServiceTokenAccepted(serviceId, token)

\* setServiceToken after the await: persistEncrypted(payload).
setServiceTokenResume(i) ==
  /\ i \in DOMAIN pending
  /\ pending[i].op = "setServiceToken"
  /\ IF persistEncryptedThrows
     THEN /\ ret' = Result("setServiceToken", pending[i].arg, "QuotaExceededError", Null)
          /\ UNCHANGED <<storage, encrypted>>
     ELSE /\ persistEncrypted(pending[i].payload)
          /\ ret' = Result("setServiceToken", pending[i].arg, "ok", Null)
  /\ pending' = RemoveAt(pending, i)
  /\ UNCHANGED <<platform, held, tokens, password, rng>>

\* clearServiceToken(serviceId), up to `await encryptData(...)`.
clearServiceToken(serviceId) ==
  IF FalsyString(password)
  THEN /\ ret' = Result("clearServiceToken", serviceId, "Vault is locked", Null)
       /\ UNCHANGED <<platform, held, storage, encrypted, tokens, password, pending, rng>>
  ELSE LET current == IF tokens = Null THEN EmptyTokens ELSE Val(tokens)
           next == RestWithout(current, serviceId)
       IN  IF serviceId \notin DOMAIN current
           THEN /\ ret' = Result("clearServiceToken", serviceId, "ok", Null)
                /\ UNCHANGED <<platform, held, storage, encrypted, tokens, password, pending, rng>>
           ELSE /\ CanEncrypt
                /\ tokens' = Some(next)
                /\ IF ~cryptoAvailable
                   THEN /\ ret' = Result("clearServiceToken", serviceId, "Crypto.getRandomValues is not available", Null)
                        /\ UNCHANGED <<pending, rng>>
                   ELSE /\ pending' = Append(pending,
                             Call("clearServiceToken", serviceId, Val(password), Some(next),
                                  encryptData(Val(password), next, rng)))
                        /\ rng' = rng + 1
                        /\ UNCHANGED ret
                /\ UNCHANGED <<platform, held, storage, encrypted, password>>

\* clearServiceToken after the await: persistEncrypted(payload).
clearServiceTokenResume(i) ==
  /\ i \in DOMAIN pending
  /\ pending[i].op = "clearServiceToken"
  /\ IF persistEncryptedThrows
     THEN /\ ret' = Result("clearServiceToken", pending[i].arg, "QuotaExceededError", Null)
          /\ UNCHANGED <<storage, encrypted>>
     ELSE /\ persistEncrypted(pending[i].payload)
          /\ ret' = Result("clearServiceToken", pending[i].arg, "ok", Null)
  /\ pending' = RemoveAt(pending, i)
  /\ UNCHANGED <<platform, held, tokens, password, rng>>

\* A page reload: a new VaultProvider is mounted over the same storage, and
\* the promises of the old page are gone.
reload ==
  /\ encrypted' = loadStoredVault
  /\ tokens' = Null
  /\ password' = Null
  /\ pending' = <<>>
  /\ ret' = Result("", "", "", Null)
  /\ UNCHANGED <<platform, held, storage, rng>>

Init ==
  /\ platform = [localStorage |-> TRUE, setItemThrows |-> FALSE, crypto |-> TRUE]
  /\ storage = Null
  /\ encrypted = Null
  /\ tokens = Null
  /\ password = Null
  /\ pending = <<>>
  /\ rng = 0
  /\ ret = Result("", "", "", Null)
  /\ held = <<>>

\* No async callback is waiting for the crypto layer.
Idle == pending = <<>>

Next ==
  \/ \E pwd \in Passwords, initialTokens \in VaultTokens :
       Idle /\ initializeVault(pwd, initialTokens)
  \/ \E i \in 1..MaxInFlight : initializeVaultResume(i)
  \/ \E pwd \in Passwords : Idle /\ setMasterPassword(pwd)
  \/ \E i \in 1..MaxInFlight : setMasterPasswordResume(i)
  \/ \E pwd \in Passwords : Idle /\ unlock(pwd)
  \/ \E i \in 1..MaxInFlight : unlockResume(i)
  \/ Idle /\ lock
  \/ Idle /\ clearVault
  \/ \E serviceId \in ServiceIds : Idle /\ getToken(serviceId)
  \/ \E serviceId \in ServiceIds, token \in TokenStrings :
       Idle /\ setServiceToken(serviceId, token)
  \/ \E i \in 1..MaxInFlight : setServiceTokenResume(i)
  \/ \E serviceId \in ServiceIds : Idle /\ clearServiceToken(serviceId)
  \/ \E i \in 1..MaxInFlight : clearServiceTokenResume(i)
  \/ reload

Spec == Init /\ [][Next]_vars

NextOverlap ==
  \/ \E pwd \in OverlapPasswords, initialTokens \in OverlapInitialTokens : initializeVault(pwd, initialTokens)
  \/ \E i \in 1..MaxInFlight : initializeVaultResume(i)
  \/ \E pwd \in OverlapPasswords : setMasterPassword(pwd)
  \/ \E i \in 1..MaxInFlight : setMasterPasswordResume(i)
  \/ \E pwd \in OverlapPasswords : unlock(pwd)
  \/ \E i \in 1..MaxInFlight : unlockResume(i)
  \/ lock
  \/ clearVault
  \/ \E serviceId \in ServiceIds : getToken(serviceId)
  \/ \E serviceId \in ServiceIds, token \in TokenStrings : setServiceToken(serviceId, token)
  \/ \E i \in 1..MaxInFlight : setServiceTokenResume(i)
  \/ \E serviceId \in ServiceIds : clearServiceToken(serviceId)
  \/ \E i \in 1..MaxInFlight : clearServiceTokenResume(i)
  \/ reload

SpecOverlap == Init /\ [][NextOverlap]_vars

\* A payload that a session before this one left in localStorage.
EarlierPayload == encryptData("pw-1", [k \in {"todoist"} |-> "tok-A"], -1)

\* What the item 'dashboard.vault' may hold when the page is loaded: text
\* that is empty or not JSON, JSON that is no object, objects of another
\* version, version-1 objects that lack members or carry text that is not
\* base64, and a payload as encryptData makes it.
StoredTexts ==
  { <<"text", [chars |-> ""]>>,
    <<"text", [chars |-> "{not json"]>>,
    StoredText([primitive |-> "null"]),
    StoredText([EarlierPayload EXCEPT !.version = 2]),
    StoredText([version |-> 1]),
    StoredText([version |-> 1, salt |-> EarlierPayload.salt, iv |-> EarlierPayload.iv]),
    StoredText([EarlierPayload EXCEPT !.salt = [chars |-> "%"]]),
    StoredText([EarlierPayload EXCEPT !.ciphertext = [chars |-> "%"]]),
    StoredText(EarlierPayload) }

\* The runtimes the page may be loaded in: with or without localStorage,
\* with a setItem that works or throws, with or without Web Crypto.
Platforms ==
  {p \in [localStorage : BOOLEAN, setItemThrows : BOOLEAN, crypto : BOOLEAN] :
     p.setItemThrows => p.localStorage}

\* The provider mounted in any of these runtimes over any of these items.
InitEnv ==
  /\ platform \in Platforms
  /\ storage \in IF platform.localStorage
                 THEN {Null} \cup {Some(text) : text \in StoredTexts}
                 ELSE {Null}
  /\ encrypted = loadStoredVault
  /\ tokens = Null
  /\ password = Null
  /\ pending = <<>>
  /\ rng = 0
  /\ ret = Result("", "", "", Null)
  /\ held = <<>>

\* The provider used as in Spec, in any runtime and over any stored item.
SpecEnv == InitEnv /\ [][Next]_vars

\* ------------------------------------------------------------------------
\* utils/secureVault called directly
\* ------------------------------------------------------------------------

\* The passwords and token maps a direct caller hands to encryptData; it
\* hands every password of Passwords to decryptData.
CallerPasswords == {"", "pw-1"}

CallerData ==
  { [k \in {} |-> ""],
    [k \in {"todoist", "webex"} |-> IF k = "todoist" THEN "tok-A" ELSE "tok-B"] }

\* A buffer with a byte changed.
Altered(buffer) == [was |-> buffer]

\* Text that window.atob rejects.
NotBase64 == [chars |-> "%"]

\* The payload with the bytes of its salt, iv or ciphertext changed.
AlteredSalt(payload) ==
  [payload EXCEPT !.salt = bufferToBase64(Altered(base64ToBuffer(payload.salt)))]

AlteredIv(payload) ==
  [payload EXCEPT !.iv = bufferToBase64(Altered(base64ToBuffer(payload.iv)))]

AlteredCiphertext(payload) ==
  [payload EXCEPT !.ciphertext = bufferToBase64(Altered(base64ToBuffer(payload.ciphertext)))]

\* The payload with its salt, iv or ciphertext replaced by text that is not
\* base64, or without the member.
Undecodable(payload, member) == [payload EXCEPT ![member] = NotBase64]

Lacking(payload, member) == [m \in DOMAIN payload \ {member} |-> payload[m]]

\* The payload with, under the same key and iv, the text JSON.stringify
\* and the encoder give for data that has no JSON text (undefined): "".
SealingNoJSON(payload) ==
  [payload EXCEPT !.ciphertext =
     bufferToBase64([base64ToBuffer(payload.ciphertext) EXCEPT !.plaintext = [chars |-> ""]])]

OtherVersion(payload) == [payload EXCEPT !.version = 2]

\* The version-1 payloads a caller may hand to decryptData in place of one
\* that encryptData returned.
Corruptions(payload) ==
  {AlteredSalt(payload), AlteredIv(payload), AlteredCiphertext(payload), SealingNoJSON(payload)}
  \cup {Undecodable(payload, member) : member \in {"salt", "iv", "ciphertext"}}
  \cup {Lacking(payload, member) : member \in {"salt", "iv", "ciphertext"}}

\* All the payloads a caller may hand to decryptData for that one.
Presentations(payload) ==
  {payload} \cup Corruptions(payload)
  \cup {OtherVersion(payload), OtherVersion(Undecodable(payload, "salt")),
        OtherVersion(AlteredCiphertext(payload))}

\* const payload = await encryptData(pwd, data)
callEncryptData(pwd, data) ==
  /\ rng < MaxEncrypt
  /\ IF ~cryptoAvailable
     THEN /\ ret' = Result("encryptData", [pwd |-> pwd, data |-> data],
                           "Crypto.getRandomValues is not available", Null)
          /\ UNCHANGED <<rng, held>>
     ELSE LET payload == encryptData(pwd, data, rng)
          IN  /\ ret' = Result("encryptData", [pwd |-> pwd, data |-> data], "ok", Some(payload))
              /\ rng' = rng + 1
              /\ held' = Append(held, [pwd |-> pwd, data |-> data, payload |-> payload])
  /\ UNCHANGED <<platform, storage, encrypted, tokens, password, pending>>

\* const data = await decryptData(pwd, payload)
callDecryptData(pwd, payload) ==
  /\ LET decrypted == decryptData(pwd, payload)
     IN  ret' = Result("decryptData", [pwd |-> pwd, payload |-> payload],
                       IF decrypted.error = "" THEN "ok" ELSE decrypted.error,
                       decrypted.value)
  /\ UNCHANGED <<platform, storage, encrypted, tokens, password, pending, rng, held>>

\* The caller starts with a payload of an earlier session, in a runtime with
\* or without Web Crypto.
InitCrypto ==
  /\ platform \in {p \in Platforms : p.localStorage /\ ~p.setItemThrows}
  /\ storage = Null
  /\ encrypted = Null
  /\ tokens = Null
  /\ password = Null
  /\ pending = <<>>
  /\ rng = 0
  /\ ret = Result("", "", "", Null)
  /\ held = <<[pwd |-> "pw-1", data |-> [k \in {"todoist"} |-> "tok-A"],
               payload |-> EarlierPayload]>>

NextCrypto ==
  \/ \E pwd \in CallerPasswords, data \in CallerData : callEncryptData(pwd, data)
  \/ \E pwd \in Passwords, k \in 1..(MaxEncrypt + 1) :
       /\ k \in DOMAIN held
       /\ \E payload \in Presentations(held[k].payload) : callDecryptData(pwd, payload)

SpecCrypto == InitCrypto /\ [][NextCrypto]_vars

\* ------------------------------------------------------------------------
\* Vocabulary of the claims
\* ------------------------------------------------------------------------

\* localStorage holds the text of a payload.
HasStoredPayload == storage # Null /\ Val(storage)[1] = "json"

StoredPayload == Val(storage)[2]

\* What a payload seals, read off the sealed text itself: the password its
\* key was derived from and the token map its plaintext lists.
SealedPassword(payload) == payload.ciphertext.b64.key.password

SealedTokens(payload) ==
  LET text == payload.ciphertext.b64.plaintext.json
  IN  [k \in {text[j][1] : j \in DOMAIN text} |->
         LET j == CHOOSE j \in DOMAIN text : text[j][1] = k IN text[j][2]]

\* localStorage holds the JSON text of a version-1 object with the members
\* salt, iv and ciphertext.
StoredValueIsPayload ==
  /\ HasStoredPayload
  /\ IsObject(StoredPayload)
  /\ IsVersion1(StoredPayload)
  /\ {"salt", "iv", "ciphertext"} \subseteq DOMAIN StoredPayload

\* The session's state: NoVault, Locked or Unlocked.
NoVault == ~hasVault /\ ~isUnlocked

Locked == hasVault /\ ~isUnlocked

Unlocked == hasVault /\ isUnlocked

\* m is the map `before` with serviceId mapped to token and nothing else changed.
IsMerge(m, before, serviceId, token) ==
  /\ DOMAIN m = DOMAIN before \cup {serviceId}
  /\ m[serviceId] = token
  /\ \A k \in DOMAIN before \ {serviceId} : m[k] = before[k]

\* m is the map `before` without serviceId and nothing else changed.
IsRemoval(m, before, serviceId) ==
  /\ DOMAIN m = DOMAIN before \ {serviceId}
  /\ \A k \in DOMAIN m : m[k] = before[k]

\* ------------------------------------------------------------------------
\* Claims
\* ------------------------------------------------------------------------

\* C1: while isUnlocked is false (NoVault or Locked), setServiceToken and
\* clearServiceToken, for every service id and token, are rejected with
\* 'Vault is locked' and leave localStorage, encrypted, tokens and password
\* as they were.
C1_LockGating ==
  [][\A serviceId \in ServiceIds, token \in TokenStrings :
       (~isUnlocked /\ (setServiceToken(serviceId, token) \/ clearServiceToken(serviceId)))
         => /\ ret'.out = "Vault is locked"
            /\ UNCHANGED <<storage, encrypted, tokens, password, pending>>]_vars

\* A locked session (a vault exists) has just rejected a setServiceToken.
C1_Witness ==
  /\ Locked
  /\ ret.op = "setServiceToken"
  /\ ret.out = "Vault is locked"

\* C2: from Locked, unlock(p) with the password the persisted payload was
\* sealed under is not answered before decryption and then resolves true,
\* with isUnlocked true, password p, and getToken giving for every service
\* id exactly what the sealed map holds for it.
C2_UnlockSuccess ==
  [][/\ \A pwd \in Passwords :
          (/\ unlock(pwd)
           /\ Locked
           /\ HasStoredPayload
           /\ pwd = SealedPassword(StoredPayload))
            => /\ pending' = Append(pending, Call("unlock", "", pwd, Null, StoredPayload))
               /\ ret' = ret
     /\ \A i \in DOMAIN pending :
          (/\ unlockResume(i)
           /\ Locked
           /\ pending[i].pwd = SealedPassword(pending[i].payload))
            => /\ ret'.out = "true"
               /\ isUnlocked'
               /\ password' = Some(pending[i].pwd)
               /\ \A serviceId \in ServiceIds :
                    getTokenValue(serviceId)' =
                      IF serviceId \in DOMAIN SealedTokens(pending[i].payload)
                      THEN Some(SealedTokens(pending[i].payload)[serviceId])
                      ELSE Null]_vars

\* An unlock has resolved true and getToken gives a token the payload seals.
C2_Witness ==
  /\ ret.op = "unlock"
  /\ ret.out = "true"
  /\ Unlocked
  /\ getTokenValue("todoist") # Null
  /\ SealedTokens(StoredPayload) = Val(tokens)

\* C3: unlock answers false and changes nothing (tokens, password, encrypted,
\* localStorage) when there is no payload or when decryption under the given
\* password fails; it never rejects; a failed attempt leaves the next one
\* everything it needs.
C3_UnlockFailure ==
  [][/\ \A pwd \in Passwords :
          unlock(pwd)
            => /\ \/ ret' = ret /\ Len(pending') = Len(pending) + 1
                  \/ ret'.op = "unlock" /\ ret'.out = "false" /\ pending' = pending
               /\ UNCHANGED <<storage, encrypted, tokens, password>>
               /\ ~hasVault => ret'.out = "false"
     /\ \A i \in DOMAIN pending :
          unlockResume(i)
            => /\ ret'.op = "unlock"
               /\ ret'.out \in {"true", "false"}
               /\ (\/ pending[i].pwd # SealedPassword(pending[i].payload)
                   \/ decryptData(pending[i].pwd, pending[i].payload).error # "")
                    => /\ ret'.out = "false"
                       /\ UNCHANGED <<storage, encrypted, tokens, password>>]_vars

\* A locked session has just answered false to an unlock with a wrong password.
C3_Witness ==
  /\ Locked
  /\ HasStoredPayload
  /\ ret.op = "unlock"
  /\ ret.out = "false"

C5_SetServiceToken ==
  [][/\ \A serviceId \in ServiceIds, token \in TokenStrings :
          (/\ setServiceToken(serviceId, token)
           /\ Unlocked)
            => /\ isUnlocked'
               /\ IsMerge(Val(tokens'), Val(tokens), serviceId, token)
               /\ Len(pending') = Len(pending) + 1
               /\ UNCHANGED <<storage, encrypted, password>>
     /\ \A i \in DOMAIN pending :
          (setServiceTokenResume(i) /\ Unlocked)
            => /\ ret'.out = "ok"
               /\ UNCHANGED <<tokens, password>>
               /\ HasStoredPayload'
               /\ storage' # storage
               /\ encrypted' = Some(StoredPayload')
               /\ SealedPassword(StoredPayload') = Val(password')
               /\ SealedTokens(StoredPayload') = Val(tokens')
               /\ pending[i].arg \in DOMAIN Val(tokens')]_vars

\* C6: removal is persisted.  A clearServiceToken(s) called from Unlocked
\* with s in the map (as after setServiceToken(s, t)) removes s from memory
\* at once, every other id unchanged, and when it resolves the stored payload
\* seals the map without s; lock and reload leave that payload in place, and
\* an unlock that resolves true yields exactly the map the stored payload
\* seals, so no key s.
C6_RemovalPersisted ==
  [][/\ \A serviceId \in ServiceIds :
          (/\ clearServiceToken(serviceId)
           /\ Unlocked
           /\ serviceId \in DOMAIN Val(tokens))
            => /\ isUnlocked'
               /\ IsRemoval(Val(tokens'), Val(tokens), serviceId)
               /\ getTokenValue(serviceId)' = Null
               /\ Len(pending') = Len(pending) + 1
     /\ \A i \in DOMAIN pending :
          (clearServiceTokenResume(i) /\ Unlocked)
            => /\ ret'.out = "ok"
               /\ UNCHANGED <<tokens, password>>
               /\ HasStoredPayload'
               /\ pending[i].arg \notin DOMAIN SealedTokens(StoredPayload')
               /\ SealedTokens(StoredPayload') = Val(tokens')
               /\ SealedPassword(StoredPayload') = Val(password')
     /\ (lock \/ reload)
          => /\ storage' = storage
             /\ HasStoredPayload => encrypted' = Some(StoredPayload)
     /\ \A i \in DOMAIN pending :
          (unlockResume(i) /\ ret'.out = "true")
            => /\ HasStoredPayload
               /\ Val(tokens') = SealedTokens(StoredPayload)]_vars

\* C7: clearVault, from NoVault, Locked or Unlocked, removes the stored item
\* and clears encrypted, tokens and password: hasVault and isUnlocked are
\* false and getToken is null for every id; and with no vault, unlock with
\* any password answers false.
C7_ClearVault ==
  [][/\ clearVault
          => /\ storage' = Null
             /\ encrypted' = Null
             /\ tokens' = Null
             /\ password' = Null
             /\ NoVault'
             /\ \A serviceId \in ServiceIds : getTokenValue(serviceId)' = Null
     /\ \A pwd \in Passwords :
          (unlock(pwd) /\ ~hasVault)
            => /\ ret'.op = "unlock"
               /\ ret'.out = "false"
               /\ UNCHANGED <<storage, encrypted, tokens, password, pending>>]_vars

\* clearVault has just wiped a vault that had been created.
C7_Witness ==
  /\ ret.op = "clearVault"
  /\ NoVault
  /\ storage = Null
  /\ rng > 0

\* C8: initializeVault(p, T), from any state, stores a new payload that seals
\* T under p in place of whatever was stored, and leaves tokens = T and
\* password = p in memory (hasVault and isUnlocked true); no id outside T is
\* readable afterwards.
C8_InitializeVault ==
  [][/\ \A pwd \in Passwords, initialTokens \in VaultTokens :
          initializeVault(pwd, initialTokens)
            => /\ Len(pending') = Len(pending) + 1
               /\ pending'[Len(pending')].op = "initializeVault"
               /\ pending'[Len(pending')].pwd = pwd
               /\ pending'[Len(pending')].toks = Some(initialTokens)
               /\ UNCHANGED <<storage, encrypted, tokens, password, ret>>
     /\ \A i \in DOMAIN pending :
          initializeVaultResume(i)
            => /\ ret'.out = "ok"
               /\ HasStoredPayload'
               /\ storage' # storage
               /\ encrypted' = Some(StoredPayload')
               /\ SealedPassword(StoredPayload') = pending[i].pwd
               /\ SealedTokens(StoredPayload') = Val(pending[i].toks)
               /\ tokens' = pending[i].toks
               /\ password' = Some(pending[i].pwd)
               /\ Unlocked'
               /\ \A serviceId \in ServiceIds \ DOMAIN Val(pending[i].toks) :
                    getTokenValue(serviceId)' = Null]_vars

\* A second initializeVault has resolved, with the empty map.
C8_Witness ==
  /\ ret.op = "initializeVault"
  /\ ret.out = "ok"
  /\ rng = 2
  /\ Unlocked
  /\ Val(tokens) = EmptyTokens

\* C9: setMasterPassword(p2) re-keys and keeps the tokens: it resolves to
\* Unlocked with the map held before (the empty map when none was held) and
\* password p2, and stores a new payload sealing that map under p2; an
\* unlock resolves true exactly under the password the payload is sealed
\* with, and then yields the sealed map.
C9_SetMasterPassword ==
  [][/\ \A pwd \in Passwords :
          setMasterPassword(pwd)
            => /\ Len(pending') = Len(pending) + 1
               /\ pending'[Len(pending')].op = "setMasterPassword"
               /\ pending'[Len(pending')].pwd = pwd
               /\ UNCHANGED <<storage, encrypted, tokens, password, ret>>
     /\ \A i \in DOMAIN pending :
          setMasterPasswordResume(i)
            => /\ ret'.out = "ok"
               /\ Unlocked'
               /\ tokens' = IF isUnlocked THEN tokens ELSE Some(EmptyTokens)
               /\ password' = Some(pending[i].pwd)
               /\ HasStoredPayload'
               /\ storage' # storage
               /\ encrypted' = Some(StoredPayload')
               /\ SealedPassword(StoredPayload') = pending[i].pwd
               /\ SealedTokens(StoredPayload') = Val(tokens')
     /\ \A i \in DOMAIN pending :
          unlockResume(i)
            => /\ ret'.out = "true" <=> pending[i].pwd = SealedPassword(pending[i].payload)
               /\ ret'.out = "true" => Val(tokens') = SealedTokens(pending[i].payload)]_vars

\* A setMasterPassword has resolved over an existing vault whose tokens it kept.
C9_Witness ==
  /\ ret.op = "setMasterPassword"
  /\ ret.out = "ok"
  /\ rng = 2
  /\ Unlocked
  /\ Val(tokens) # EmptyTokens
  /\ SealedTokens(StoredPayload) = Val(tokens)

\* C10: lock discards tokens and password (isUnlocked false) and leaves the
\* stored payload, encrypted and hasVault alone; from Locked or NoVault it
\* changes nothing; and what it discards is what the stored payload seals
\* under the discarded password, so a later unlock with it restores the map.
C10_Lock ==
  [][lock
       => /\ tokens' = Null
          /\ password' = Null
          /\ ~isUnlocked'
          /\ hasVault' = hasVault
          /\ UNCHANGED <<storage, encrypted, pending>>
          /\ ~isUnlocked => UNCHANGED <<tokens, password>>
          /\ Unlocked
               => /\ HasStoredPayload
                  /\ encrypted = Some(StoredPayload)
                  /\ SealedTokens(StoredPayload) = Val(tokens)
                  /\ SealedPassword(StoredPayload) = Val(password)]_vars

\* lock has just locked a session that had a vault.
C10_Witness ==
  /\ ret.op = "lock"
  /\ Locked
  /\ password = Null
  /\ SealedTokens(StoredPayload) # EmptyTokens

\* C11: overlapping writes lose nothing.  When a setServiceToken resolves
\* right after a setServiceToken on another service id has resolved, the two
\* having been the only calls at work (memory holds the map the later-invoked
\* of the two put there, under the password both sealed with), both tokens
\* are in the in-memory map and in the map sealed by the payload finally in
\* localStorage, whichever of the two resolved last.
C11_OverlappingWritesLoseNothing ==
  [][\A i \in 1..MaxInFlight :
       (/\ setServiceTokenResume(i)
        /\ Len(pending) = 1
        /\ ret.op = "setServiceToken" /\ ret.out = "ok"
        /\ ret.arg # pending[i].arg
        /\ HasStoredPayload
        /\ ret.arg \in DOMAIN SealedTokens(StoredPayload)
        /\ password = Some(pending[i].pwd)
        /\ SealedPassword(StoredPayload) = pending[i].pwd
        /\ tokens \in {Some(SealedTokens(StoredPayload)), pending[i].toks})
         => LET first == pending[i].arg
                firstToken == Val(pending[i].toks)[first]
                second == ret.arg
                secondToken == SealedTokens(StoredPayload)[second]
                HasBoth(m) ==
                  /\ {first, second} \subseteq DOMAIN m
                  /\ m[first] = firstToken
                  /\ m[second] = secondToken
            IN  /\ isUnlocked'
                /\ HasBoth(Val(tokens'))
                /\ HasStoredPayload'
                /\ HasBoth(SealedTokens(StoredPayload'))]_vars

\* C12: on load, a stored value that is absent, is not JSON, is of another
\* version, or is of version 1 but lacks salt, iv or ciphertext is treated
\* like no vault: hasVault is false and the session starts in NoVault.
\* The provider has just been mounted (no call has ended yet: ret.op = "").
C12_LoadValidation ==
  (ret.op = "" /\ ~StoredValueIsPayload) => (~hasVault /\ NoVault)

\* C13: a reload resets only memory.  After a reload from any state, tokens
\* and password are null (isUnlocked is false, getToken gives null for every
\* service id), hasVault is true exactly when localStorage held a valid
\* payload before the reload, and localStorage is as it was.
C13_ReloadResetsOnlyMemory ==
  [][reload =>
       /\ tokens' = Null
       /\ password' = Null
       /\ ~isUnlocked'
       /\ \A serviceId \in ServiceIds : getTokenValue(serviceId)' = Null
       /\ hasVault' <=> StoredValueIsPayload
       /\ storage' = storage]_vars

\* The records a direct caller holds, by position.
HeldIndex == 1..(MaxEncrypt + 1)

\* decryptData has just ended, having been handed the k-th payload held or
\* one made from it.
DecryptedFrom(k) ==
  /\ ret.op = "decryptData"
  /\ k \in DOMAIN held
  /\ ret.arg.payload \in Presentations(held[k].payload)

\* C14: round trip.  For every password and token map handed to encryptData,
\* decryptData of the returned payload under the same password returns a
\* value equal to that token map.
C14_RoundTrip ==
  \A k \in HeldIndex :
    (/\ DecryptedFrom(k)
     /\ cryptoAvailable
     /\ ret.arg.payload = held[k].payload
     /\ ret.arg.pwd = held[k].pwd)
      => /\ ret.out = "ok"
         /\ ret.value = Some(held[k].data)

\* A two-member map sealed under the empty password has come back.
C14_Witness ==
  /\ ret.op = "decryptData" /\ ret.out = "ok" /\ ret.arg.pwd = ""
  /\ DOMAIN Val(ret.value) = {"todoist", "webex"}
  /\ \E k \in DOMAIN held :
       k > 1 /\ held[k].payload = ret.arg.payload /\ held[k].data = Val(ret.value)

\* C15: authenticated decryption.  decryptData returns a value only under the
\* password the payload was made with and for salt, iv and ciphertext as
\* encryptData returned them, and then the value encrypted; under every
\* other password, and for every payload whose iv or ciphertext was altered
\* (to other bytes or to text that does not decode), it fails with 'Invalid
\* password or corrupted data'.
C15_AuthenticatedDecryption ==
  \A k \in HeldIndex :
    (DecryptedFrom(k) /\ cryptoAvailable /\ IsVersion1(ret.arg.payload)) =>
      LET made == held[k].payload
          AlteredIvOrCiphertext ==
            {AlteredIv(made), AlteredCiphertext(made),
             Undecodable(made, "iv"), Undecodable(made, "ciphertext")}
      IN  /\ ret.out = "ok"
               => /\ ret.arg.pwd = held[k].pwd
                  /\ ret.arg.payload = made
                  /\ ret.value = Some(held[k].data)
          /\ (ret.arg.payload = made /\ ret.arg.pwd # held[k].pwd)
               => ret.out = "Invalid password or corrupted data"
          /\ ret.arg.payload \in AlteredIvOrCiphertext
               => ret.out = "Invalid password or corrupted data"

\* C16: version gate.  For every payload whose version is not 1, whatever the
\* password, the other members and the runtime, decryptData fails with
\* 'Unsupported vault version': no decoding of salt or iv and no use of Web
\* Crypto comes before the check.
C16_VersionGate ==
  (ret.op = "decryptData" /\ ~IsVersion1(ret.arg.payload))
    => /\ ret.out = "Unsupported vault version"
       /\ ret.value = Null

\* A payload of version 2 whose salt does not decode has been rejected in a
\* runtime without Web Crypto.
C16_Witness ==
  /\ ret.op = "decryptData"
  /\ ret.out = "Unsupported vault version"
  /\ ret.arg.payload.salt = NotBase64
  /\ ~cryptoAvailable

\* C17: single failure outcome.  On a payload of version 1, whatever fails
\* (a wrong password, salt, iv or ciphertext altered, undecodable or
\* missing, a plaintext that is not JSON), decryptData fails with the one
\* error 'Invalid password or corrupted data'.
C17_SingleFailureOutcome ==
  (ret.op = "decryptData" /\ cryptoAvailable /\ IsVersion1(ret.arg.payload))
    => ret.out \in {"ok", "Invalid password or corrupted data"}

\* C18: fresh salt and iv on every save.  No two payloads that encryptData
\* has returned share a salt, an iv or a ciphertext, whatever the passwords
\* and token maps were.
C18_FreshSaltAndIv ==
  \A j, k \in DOMAIN held :
    j # k =>
      /\ held[j].payload.salt # held[k].payload.salt
      /\ held[j].payload.iv # held[k].payload.iv
      /\ held[j].payload.ciphertext # held[k].payload.ciphertext

\* encryptData has been called twice with the same password and token map.
C18_Witness ==
  \E j, k \in DOMAIN held :
    /\ 1 < j /\ j < k
    /\ held[j].pwd = held[k].pwd
    /\ held[j].data = held[k].data

\* C19: unlock turns only failures of decryption into false.  When the
\* payload held is one decryptData would go on to decrypt and the runtime
\* lacks Web Crypto, unlock does not return false: the error 'Web Crypto API
\* is not available' reaches its caller.
C19_UnlockPropagatesCryptoUnavailable ==
  [][\A pwd \in Passwords :
       (/\ unlock(pwd)
        /\ hasVault
        /\ decryptDataThrowsAtOnce(Val(encrypted)) = "Web Crypto API is not available")
         => /\ ret'.op = "unlock"
            /\ ret'.out = "Web Crypto API is not available"]_vars

\* C20: without a usable localStorage no save succeeds.  When initializeVault,
\* setMasterPassword, setServiceToken or clearServiceToken resolves, the
\* payload it made is the item in localStorage; when localStorage is missing
\* or setItem throws, the call is rejected.
C20_NoSuccessWithoutWrite ==
  [][\A i \in 1..MaxInFlight :
       (\/ initializeVaultResume(i)
        \/ setMasterPasswordResume(i)
        \/ setServiceTokenResume(i)
        \/ clearServiceTokenResume(i))
         => /\ ret'.out = "ok" => storage' = Some(StoredText(pending[i].payload))
            /\ (~platform.localStorage \/ persistEncryptedThrows) => ret'.out # "ok"]_vars

\* C21: while isUnlocked is true, setServiceToken and clearServiceToken are
\* never rejected with 'Vault is locked', whatever password the vault was
\* initialised, re-keyed or unlocked with, the empty string included.
C21_UnlockedNeverRejectedAsLocked ==
  [][\A serviceId \in ServiceIds, token \in TokenStrings :
       (isUnlocked /\ (setServiceToken(serviceId, token) \/ clearServiceToken(serviceId)))
         => ret'.out # "Vault is locked"]_vars

\* C22: clearServiceToken(s) called from Unlocked when s is no key of the
\* in-memory map succeeds and does nothing: no encryptData is started (no
\* random bytes are drawn, nothing is left in flight) and localStorage,
\* encrypted, tokens and password are as before.
C22_ClearAbsentIsNoOp ==
  [][\A serviceId \in ServiceIds :
       (/\ clearServiceToken(serviceId)
        /\ Unlocked
        /\ serviceId \notin DOMAIN Val(tokens))
         => /\ ret'.op = "clearServiceToken"
            /\ ret'.out = "ok"
            /\ UNCHANGED <<storage, encrypted, tokens, password, pending, rng>>]_vars

\* C23: the shape of the session's state.  In every reachable state, with
\* calls in flight or not and clearVault run between them or not, isUnlocked
\* implies hasVault: the session is in exactly one of NoVault, Locked and
\* Unlocked.
C23_UnlockedImpliesVault ==
  /\ isUnlocked => hasVault
  /\ NoVault \/ Locked \/ Unlocked

\* C24: in every reachable state the password is held in memory exactly when
\* the token map is, and lock, clearVault and reload discard the two
\* together.
C24_PasswordWithTokens ==
  /\ []((password # Null) <=> (tokens # Null))
  /\ [][(lock \/ clearVault \/ reload) => (password' = Null /\ tokens' = Null)]_vars

\* A lock has just discarded tokens and password while a call made from the
\* unlocked session was still in flight.
C24_Witness ==
  /\ ret.op = "lock"
  /\ hasVault
  /\ password = Null
  /\ tokens = Null
  /\ pending # <<>>
  /\ pending[1].op = "setServiceToken"

\* C25: the mirror.  In every reachable state hasVault is true exactly when
\* localStorage holds a payload (a version-1 object with salt, iv and
\* ciphertext), and then encrypted is that payload: the in-memory payload
\* and the stored item are both absent or both the same payload.
C25_Mirror ==
  /\ hasVault <=> StoredValueIsPayload
  /\ hasVault => encrypted = Some(StoredPayload)

\* C26: persist before memory.  setServiceToken and clearServiceToken change
\* the in-memory map only once the re-encrypted payload is in localStorage:
\* a call that has not yet persisted, or that fails, leaves the map as it
\* was, and at no point does getToken return a token that the stored payload
\* does not seal.
C26_PersistBeforeMemory ==
  /\ \A serviceId \in ServiceIds :
       getTokenValue(serviceId) # Null
         => /\ HasStoredPayload
            /\ serviceId \in DOMAIN SealedTokens(StoredPayload)
            /\ SealedTokens(StoredPayload)[serviceId] = Val(getTokenValue(serviceId))
  /\ (ret.op \in {"setServiceToken", "clearServiceToken"} /\ ret.out # "ok" /\ isUnlocked)
       => (HasStoredPayload /\ Val(tokens) = SealedTokens(StoredPayload))

\* C27: memory and storage agree when idle.  In every state where the
\* session is Unlocked and no call is in flight, decryptData of the stored
\* payload under the held password succeeds and gives exactly the in-memory
\* token map, however the calls that led there were interleaved.
C27_IdleAgreement ==
  (Unlocked /\ Idle)
    => /\ HasStoredPayload
       /\ decryptData(Val(password), StoredPayload) = [error |-> "", value |-> tokens]

\* C28: a wipe is not undone by work in flight.  When clearVault has just run
\* (it is the last call that ended, so whatever is pending was in flight when
\* it ran) and a pending initializeVault, setMasterPassword, setServiceToken
\* or clearServiceToken resumes, no payload is written back: hasVault stays
\* false and localStorage stays empty.
C28_WipeNotUndone ==
  [][\A i \in 1..MaxInFlight :
       (/\ ret.op = "clearVault"
        /\ \/ initializeVaultResume(i)
           \/ setMasterPasswordResume(i)
           \/ setServiceTokenResume(i)
           \/ clearServiceTokenResume(i))
         => (~hasVault' /\ storage' = Null)]_vars

\* C29: a lock is not undone by work in flight.  When lock has just run (it
\* is the last call that ended, so whatever is pending was in flight when it
\* ran) and a pending unlock, initializeVault or setMasterPassword resumes,
\* neither tokens nor password is put back: isUnlocked stays false and
\* getToken gives null for every service id.
C29_LockNotUndone ==
  [][\A i \in 1..MaxInFlight :
       (/\ ret.op = "lock"
        /\ \/ unlockResume(i)
           \/ initializeVaultResume(i)
           \/ setMasterPasswordResume(i))
         => /\ ~isUnlocked'
            /\ password' = Null
            /\ \A serviceId \in ServiceIds : getTokenValue(serviceId)' = Null]_vars

\* What of a payload can be read without the key: its members, its version
\* and the lengths of its salt and iv.
PayloadShape(payload) ==
  [members |-> DOMAIN payload,
   version |-> payload.version,
   salt |-> base64ToBuffer(payload.salt).len,
   iv |-> base64ToBuffer(payload.iv).len]

\* The salt and the iv of the payload are draws of the random source, and
\* its ciphertext is text sealed by AES-GCM with that iv under a key derived
\* with that salt.
IsSealed(payload) ==
  /\ IsBase64(payload.salt) /\ IsBase64(payload.iv) /\ IsBase64(payload.ciphertext)
  /\ \E n \in 0..(2 * MaxEncrypt + 1) :
       base64ToBuffer(payload.salt) = getRandomBytes(SaltLength, n)
  /\ \E n \in 0..(2 * MaxEncrypt + 1) :
       base64ToBuffer(payload.iv) = getRandomBytes(IvLength, n)
  /\ LET sealed == base64ToBuffer(payload.ciphertext)
     IN  /\ DOMAIN sealed = {"key", "iv", "plaintext"}
         /\ sealed.iv = base64ToBuffer(payload.iv)
         /\ DOMAIN sealed.key = {"password", "salt"}
         /\ sealed.key.salt = base64ToBuffer(payload.salt)

\* C30: nothing but ciphertext at rest.  In every reachable state the item
\* in localStorage is absent or is the JSON text of one object with exactly
\* the members version (1), salt (16 bytes), iv (12 bytes) and ciphertext,
\* the ciphertext being sealed text; neither the password nor the token map
\* is a member of what is written, and the shape is the same whatever the
\* password and the tokens are.  Every write to the item is a removal or the
\* payload of a call that was in flight.
C30_CiphertextAtRest ==
  /\ [](storage # Null
          => /\ HasStoredPayload
             /\ PayloadShape(StoredPayload) =
                  [members |-> {"version", "salt", "iv", "ciphertext"},
                   version |-> 1, salt |-> SaltLength, iv |-> IvLength]
             /\ IsSealed(StoredPayload))
  /\ [][storage' # storage
          => \/ storage' = Null
             \/ \E i \in DOMAIN pending :
                  storage' = Some(StoredText(pending[i].payload))]_vars

\* After three saves the stored item seals two tokens under "pw-2".
C30_Witness ==
  /\ HasStoredPayload
  /\ rng = 3
  /\ SealedPassword(StoredPayload) = "pw-2"
  /\ DOMAIN SealedTokens(StoredPayload) = ServiceIds
  /\ tokens = Some(SealedTokens(StoredPayload))

====
